---- MODULE Spec2Model ----
(***************************************************************************)
(* Header decoding of MTZ reflection files: src/src/mtz/mtz.py (record     *)
(* decoder, batch decoder, header assembly, validation, dataset and column *)
(* extraction) over the byte cursor of src/src/mtz/io.py.                  *)
(*                                                                         *)
(* Text is modelled as a sequence of glyphs.  A glyph is either the single *)
(* space character " " or a run of non-space characters ("NCOL", "0",      *)
(* "a"); in the records built from the alphabet JunkChars a glyph is one   *)
(* character.  The string operations of the code (find, slicing, strip,    *)
(* split, int) are operators on glyph sequences that do what the Python    *)
(* operations do.  A fixed-width field of a record (COLSRC, COLGRP, BHCH)  *)
(* is one glyph followed by one separating space.                          *)
(***************************************************************************)
EXTENDS Integers, Sequences, FiniteSets, TLC

VARIABLES
  file,            \* the input file: preamble fields and the items stored from the header offset on
  pos,             \* stream.tell(): the byte position of the cursor
  seeks,           \* the sequence of offsets passed to file_reader.seek
  pc,              \* position of the decode: "open", "phase1", "phase2", "bats", "validate", "done"
  header_records,  \* _parse_header: the records collected before END
  ncol,            \* _parse_header: (ncols, nrefl, nbatch) of the NCOL record
  history,         \* _parse_header: history lines of the last MTZHIST block
  batches,         \* _parse_header: batches of the last MTZBATS block
  acc,             \* the list the comprehension of line 157 is building
  result,          \* "running", "Header", or the name of the exception that reached the caller
  errkw,           \* the keyword named by the message of the IOError of line 256
  header,          \* the Header object once constructed
  lists,           \* the number of history and batches list objects created so far
  history_id,      \* the list object the name history of _parse_header is bound to
  batches_id,      \* the list object the name batches of _parse_header is bound to
  held,            \* the list objects the constructed Header holds as history and batches
  made             \* what the earlier decodes left: NoHeld, or what the Header holds

listvars == <<lists, history_id, batches_id, held, made>>

vars == <<file, pos, seeks, pc, header_records, ncol, history, batches, acc,
          result, errkw, header, lists, history_id, batches_id, held, made>>

-----------------------------------------------------------------------------
(* Python string operations on glyph sequences *)

SP == " "

Min(a, b) == IF a < b THEN a ELSE b
Max(a, b) == IF a > b THEN a ELSE b

\* str.find: 0-based index of the first occurrence, -1 when there is none
find(s, ch) ==
  IF \E i \in 1..Len(s) : s[i] = ch
  THEN (CHOOSE i \in 1..Len(s) : s[i] = ch /\ \A j \in 1..(i-1) : s[j] # ch) - 1
  ELSE -1

\* s[:k], a negative k counting from the end
SliceTo(s, k) ==
  IF k >= 0 THEN SubSeq(s, 1, Min(k, Len(s)))
  ELSE SubSeq(s, 1, Max(Len(s) + k, 0))

\* s[k:] for k >= 0
SliceFrom(s, k) == SubSeq(s, k + 1, Len(s))

\* str.strip
strip(s) ==
  IF \A i \in 1..Len(s) : s[i] = SP THEN <<>>
  ELSE LET a == CHOOSE i \in 1..Len(s) : s[i] # SP /\ \A j \in 1..(i-1) : s[j] = SP
           b == CHOOSE i \in 1..Len(s) : s[i] # SP /\ \A j \in (i+1)..Len(s) : s[j] = SP
       IN SubSeq(s, a, b)

\* str.split / shlex.split: the non-space tokens
split(s) == SelectSeq(s, LAMBDA g : g # SP)

\* the k-th fixed-width field of s, stripped ("" when blank or missing)
Cell(s, k) ==
  IF 2 * k - 1 <= Len(s) /\ s[2 * k - 1] # SP THEN s[2 * k - 1] ELSE ""

\* split_length(string, lengths): n fixed-width fields
split_length(string, n) == [k \in 1..n |-> Cell(string, k)]

IntGlyphs == {"-1", "0", "1", "2", "3", "4", "5"}

IntOf(g) ==
  CASE g = "-1" -> 0 - 1
    [] g = "0" -> 0
    [] g = "1" -> 1
    [] g = "2" -> 2
    [] g = "3" -> 3
    [] g = "4" -> 4
    [] g = "5" -> 5

HexGlyphs == IntGlyphs \cup {"1A"}

HexOf(g) == IF g = "1A" THEN 26 ELSE IntOf(g)

\* the converters of the type lists: int, float, unicode, hex_int
CanConv(t, g) ==
  CASE t = "int" -> g \in IntGlyphs
    [] t = "float" -> g \in IntGlyphs
    [] t = "hex" -> g \in HexGlyphs
    [] OTHER -> TRUE

Conv(t, g) ==
  CASE t = "int" -> IntOf(g)
    [] t = "float" -> IntOf(g)
    [] t = "hex" -> HexOf(g)
    [] OTHER -> g

-----------------------------------------------------------------------------
(* RecordDecoder *)

OK == "OK"

HeaderRecord(keyword, data) == [exc |-> OK, keyword |-> keyword, data |-> data]

Raise(exc, keyword) == [exc |-> exc, keyword |-> keyword, data |-> <<>>]

\* [conv(x) for x in data.split()] followed by assert len(vals) == n
FixedTuple(keyword, toks, t, n) ==
  IF \E i \in 1..Len(toks) : ~CanConv(t, toks[i]) THEN Raise("ValueError", keyword)
  ELSE IF Len(toks) # n THEN Raise("AssertionError", keyword)
  ELSE HeaderRecord(keyword, [i \in 1..n |-> Conv(t, toks[i])])

_map_types(keyword, parts, type_list) ==
  IF Len(parts) # Len(type_list) THEN Raise("AssertionError", keyword)
  ELSE IF \E i \in 1..Len(parts) : ~CanConv(type_list[i], parts[i])
  THEN Raise("ValueError", keyword)
  ELSE HeaderRecord(keyword, [i \in 1..Len(parts) |-> Conv(type_list[i], parts[i])])

\* int(data): the text must be one integer, surrounding blanks allowed
IntRecord(keyword, data) ==
  IF Len(split(data)) = 1 /\ split(data)[1] \in IntGlyphs
  THEN HeaderRecord(keyword, IntOf(split(data)[1]))
  ELSE Raise("ValueError", keyword)

Keyword(raw_data) == SliceTo(raw_data, find(raw_data, SP))

_parse_record(raw_data) ==
  LET keyword == Keyword(raw_data)
      data == SliceFrom(raw_data, Len(keyword) + 1)
      toks == split(data)
      IdStr == <<"int", "unicode">>
  IN CASE keyword \in {<<"VERS">>, <<"TITLE">>, <<"SYMM">>, <<"VALM">>} ->
            HeaderRecord(keyword, strip(data))
       [] keyword = <<"NCOL">> -> FixedTuple(keyword, toks, "int", 3)
       [] keyword = <<"CELL">> -> FixedTuple(keyword, toks, "float", 6)
       [] keyword = <<"SORT">> -> FixedTuple(keyword, toks, "int", 5)
       [] keyword = <<"SYMINF">> ->
            IF Len(toks) = 7
            THEN _map_types(keyword, toks,
                   <<"int", "int", "unicode", "int", "unicode", "unicode", "unicode">>)
            ELSE _map_types(keyword, toks,
                   <<"int", "int", "unicode", "int", "unicode", "unicode">>)
       [] keyword = <<"RESO">> -> FixedTuple(keyword, toks, "float", 2)
       [] keyword \in {<<"COL">>, <<"COLUMN">>} ->
            _map_types(keyword, toks, <<"unicode", "unicode", "float", "float", "int">>)
       [] keyword = <<"NDIF">> -> IntRecord(keyword, data)
       [] keyword \in {<<"PROJECT">>, <<"CRYSTAL">>, <<"DATASET">>} ->
            _map_types(keyword, toks, IdStr)
       [] keyword = <<"DCELL">> ->
            _map_types(keyword, toks,
              <<"int", "float", "float", "float", "float", "float", "float">>)
       [] keyword = <<"DWAVEL">> -> _map_types(keyword, toks, <<"int", "float">>)
       [] keyword = <<"BATCH">> ->
            IF \E i \in 1..Len(toks) : toks[i] \notin IntGlyphs
            THEN Raise("ValueError", keyword)
            ELSE HeaderRecord(keyword, [i \in 1..Len(toks) |-> IntOf(toks[i])])
       [] keyword = <<"COLSRC">> ->
            IF Cell(data, 3) \in IntGlyphs
            THEN HeaderRecord(keyword, <<Cell(data, 1), Cell(data, 2), IntOf(Cell(data, 3))>>)
            ELSE Raise("ValueError", keyword)
       [] keyword = <<"COLGRP">> ->
            _map_types(keyword, split_length(data, 5),
              <<"unicode", "unicode", "unicode", "hex", "int">>)
       [] keyword \in {<<"END">>, <<"MTZENDOFHEADERS">>, <<"MTZBATS">>} ->
            HeaderRecord(keyword, <<>>)
       [] keyword = <<"MTZHIST">> -> IntRecord(keyword, strip(data))
       [] keyword = <<"BH">> -> _map_types(keyword, toks, <<"int", "int", "int", "int">>)
       [] keyword = <<"BHCH">> ->
            HeaderRecord(keyword, SelectSeq(split_length(data, 3), LAMBDA x : x # ""))
       [] OTHER -> Raise("IOError", keyword)

-----------------------------------------------------------------------------
(* BinaryCursor: the file and the reads of io.py *)

RecordSize == 80
WordSize == 4

MTZMagic == "MTZ "
NumberFormat == "44 41 00 00"

NoKeyword == <<"<none>">>

\* the items stored in a file: an 80-byte text record or a 4-byte word
Rc(raw) == [t |-> "rec", raw |-> raw]
W4(v) == [t |-> "i4", v |-> v]

Size(item) == IF item.t = "rec" THEN RecordSize ELSE WordSize

\* the header position taken as a count of words from byte 0
HeaderStart_from_zero(f) == f.offset * WordSize

\* the byte at which the header starts: (header_position - 1) * 4
HeaderStart(f) == (f.offset - 1) * WordSize

\* the byte at which item i of the file starts (the end of the file for i = Len + 1)
RECURSIVE StartOf(_, _)
StartOf(f, i) == IF i <= 1 THEN HeaderStart(f) ELSE StartOf(f, i - 1) + Size(f.body[i - 1])

EndOf(f) == StartOf(f, Len(f.body) + 1)

\* the index of the item that starts at byte p, 0 when none does; item i starts at byte at
RECURSIVE Locate(_, _, _, _)
Locate(f, p, i, at) ==
  IF i > Len(f.body) \/ at > p THEN 0
  ELSE IF at = p THEN i
  ELSE Locate(f, p, i + 1, at + Size(f.body[i]))

IndexAt(f, p) == Locate(f, p, 1, HeaderStart(f))

\* bytes that are not a text record, decoded as text: no space, no known keyword
Junk == <<"\\x00", "\\x00">>

\* stream.read(80).decode("ascii"): a short read at the end of the file returns what is left
read(f, p) ==
  LET i == IndexAt(f, p)
  IN IF p >= EndOf(f) THEN [raw |-> <<>>, pos |-> p]
     ELSE IF i > 0 /\ f.body[i].t = "rec" THEN [raw |-> f.body[i].raw, pos |-> p + RecordSize]
     ELSE [raw |-> Junk, pos |-> Min(p + RecordSize, EndOf(f))]

\* struct.unpack("<i", stream.read(4)): fewer than 4 bytes left is a struct.error
read_uint4(f, p) ==
  LET i == IndexAt(f, p)
  IN IF p + WordSize > EndOf(f) THEN [exc |-> "struct.error", junk |-> FALSE, v |-> 0, pos |-> EndOf(f)]
     ELSE IF i > 0 /\ f.body[i].t = "i4"
     THEN [exc |-> OK, junk |-> FALSE, v |-> f.body[i].v, pos |-> p + WordSize]
     ELSE [exc |-> OK, junk |-> TRUE, v |-> 0, pos |-> p + WordSize]

\* the lines of a block accumulated in front of the list instead of behind it
RECURSIVE read_lines_prepended(_, _, _)
read_lines_prepended(f, p, n) ==
  IF n <= 0 THEN [lines |-> <<>>, pos |-> p]
  ELSE LET r == read(f, p)
           rest == read_lines_prepended(f, r.pos, n - 1)
       IN [lines |-> rest.lines \o <<strip(r.raw)>>, pos |-> rest.pos]

\* [stream.read(80).decode("ascii").strip() for x in range(n)]
RECURSIVE read_lines(_, _, _)
read_lines(f, p, n) ==
  IF n <= 0 THEN [lines |-> <<>>, pos |-> p]
  ELSE LET r == read(f, p)
           rest == read_lines(f, r.pos, n - 1)
       IN [lines |-> <<strip(r.raw)>> \o rest.lines, pos |-> rest.pos]

\* [stream.read_uint4() for x in range(n)]
RECURSIVE read_ints(_, _, _)
read_ints(f, p, n) ==
  IF n <= 0 THEN [exc |-> OK, vals |-> <<>>, pos |-> p]
  ELSE LET r == read_uint4(f, p)
           rest == read_ints(f, r.pos, n - 1)
       IN IF r.exc # OK THEN [exc |-> r.exc, vals |-> <<>>, pos |-> r.pos]
          ELSE [exc |-> rest.exc, vals |-> <<r.v>> \o rest.vals, pos |-> rest.pos]

\* [stream.read_float4() for x in range(n)]: file_reader defines no read_float4
read_floats(f, p, n) ==
  IF n <= 0 THEN [exc |-> OK, vals |-> <<>>, pos |-> p]
  ELSE [exc |-> "AttributeError", vals |-> <<>>, pos |-> p]

\* lines 132-134: the expected-keyword test on a decoded record
Expect(record, expected, p) ==
  IF record.exc # OK THEN [rec |-> record, pos |-> p]
  ELSE IF expected # <<>> /\ record.keyword # expected
  THEN [rec |-> Raise("MTZFileError", NoKeyword), pos |-> p]
  ELSE [rec |-> record, pos |-> p]

Decoded(r, expected) == Expect(_parse_record(r.raw), expected, r.pos)

\* _read_record(stream, expected); expected = <<>> stands for None
_read_record(f, p, expected) == Decoded(read(f, p), expected)

-----------------------------------------------------------------------------
(* BatchDecoder *)

Batch(serial, title, data, bhch) ==
  [serial |-> serial, title |-> title, data |-> data, bhch |-> bhch]

NoBatch == Batch(0, <<>>, <<<<>>, <<>>>>, <<>>)

BatchFail(exc, p) == [exc |-> exc, pos |-> p, batch |-> NoBatch]

\* the asserts of lines 119-121: one word is read and compared for each expected count
RECURSIVE confirm(_, _, _)
RECURSIVE confirm_word(_, _, _)
confirm(f, p, expected) ==
  IF expected = <<>> THEN [exc |-> OK, pos |-> p]
  ELSE confirm_word(f, read_uint4(f, p), expected)

confirm_word(f, w, expected) ==
  IF w.exc # OK THEN [exc |-> w.exc, pos |-> w.pos]
  ELSE IF w.junk \/ Head(expected) # w.v THEN [exc |-> "AssertionError", pos |-> w.pos]
  ELSE confirm(f, w.pos, Tail(expected))

\* line 128, after the BHCH record of line 126
BatchAfterBHCH(bh, title, integers, reals, BHCH) ==
  IF BHCH.rec.exc # OK THEN BatchFail(BHCH.rec.exc, BHCH.pos)
  ELSE [exc |-> OK, pos |-> BHCH.pos,
        batch |-> Batch(bh[1], title, <<integers, reals>>, BHCH.rec.data)]

\* line 126, after the reals of line 124
BatchAfterReals(f, bh, title, integers, reals) ==
  IF reals.exc # OK THEN BatchFail(reals.exc, reals.pos)
  ELSE BatchAfterBHCH(bh, title, integers, reals.vals,
                      _read_record(f, reals.pos, <<"BHCH">>))

\* line 124, after the integers of line 123
BatchAfterIntegers(f, bh, title, integers) ==
  IF integers.exc # OK THEN BatchFail(integers.exc, integers.pos)
  ELSE BatchAfterReals(f, bh, title, integers.vals, read_floats(f, integers.pos, bh[4]))

\* lines 122-123, after the three confirmation words; bh = (serial, nwords, nintegers, nreals)
BatchAfterCounts(f, bh, title, counts) ==
  IF counts.exc # OK THEN BatchFail(counts.exc, counts.pos)
  ELSE IF bh[4] + bh[3] # bh[2] THEN BatchFail("AssertionError", counts.pos)
  ELSE BatchAfterIntegers(f, bh, title, read_ints(f, counts.pos, bh[3] - 3))

\* lines 119-121, after the TITLE record of line 116
BatchAfterTitle(f, bh, title) ==
  IF title.rec.exc # OK THEN BatchFail(title.rec.exc, title.pos)
  ELSE BatchAfterCounts(f, bh, title.rec.data,
                        confirm(f, title.pos, <<bh[2], bh[3], bh[4]>>))

\* lines 115-116, after the BH record of line 113
BatchAfterBH(f, bh) ==
  IF bh.rec.exc # OK THEN BatchFail(bh.rec.exc, bh.pos)
  ELSE BatchAfterTitle(f, bh.rec.data, _read_record(f, bh.pos, <<"TITLE">>))

\* one call of _parse_batch with the cursor at byte p
_parse_batch(f, p) == BatchAfterBH(f, _read_record(f, p, <<"BH">>))

-----------------------------------------------------------------------------
(* get_only, get_only_or and the extractors *)

None == <<>>
Some(v) == <<v>>

\* the records of a list whose keyword is one of kws, in order
WithKeyword(records, kws) == SelectSeq(records, LAMBDA x : x.keyword \in kws)

\* the records of a list whose keyword is none of kws, in order
WithoutKeyword(records, kws) == SelectSeq(records, LAMBDA x : x.keyword \notin kws)

\* the first item returned without looking for a second
get_only_first(items) ==
  IF Len(items) >= 1 THEN [exc |-> OK, value |-> Some(items[1])]
  ELSE [exc |-> "ValueError", value |-> None]

\* get_only: exactly one item, a ValueError otherwise
get_only(items) ==
  IF Len(items) = 1 THEN [exc |-> OK, value |-> Some(items[1])]
  ELSE [exc |-> "ValueError", value |-> None]

\* get_only_or: the only item or the default None, a ValueError when there are several
get_only_or(items) ==
  IF Len(items) = 0 THEN [exc |-> OK, value |-> None]
  ELSE IF Len(items) = 1 THEN [exc |-> OK, value |-> Some(items[1])]
  ELSE [exc |-> "ValueError", value |-> None]

ColumnKeywords == {<<"COL">>, <<"COLUMN">>}
DatasetKeywords == {<<"PROJECT">>, <<"CRYSTAL">>, <<"DATASET">>, <<"DCELL">>, <<"DWAVEL">>}

\* the ids of the COL/COLUMN records alone, the dataset records forgotten
dataset_ids_of_columns(records) ==
  {records[i].data[5] : i \in {j \in 1..Len(records) : records[j].keyword \in ColumnKeywords}}

\* the set comprehension of lines 261-262
dataset_ids(records) ==
  {records[i].data[5] : i \in {j \in 1..Len(records) : records[j].keyword \in ColumnKeywords}}
    \cup
  {records[i].data[1] : i \in {j \in 1..Len(records) : records[j].keyword \in DatasetKeywords}}

\* the iteration order of a set of small integers: ascending
RECURSIVE Ascending(_)
Ascending(S) ==
  IF S = {} THEN <<>>
  ELSE LET m == CHOOSE x \in S : \A y \in S : x <= y
       IN <<m>> \o Ascending(S \ {m})

\* the records of one kind, whatever id they carry
OfDataset_any_id(records, kw, id) ==
  SelectSeq(records, LAMBDA x : x.keyword = kw)

\* the generator of lines 269-273: the records of one kind that carry the id
OfDataset(records, kw, id) ==
  SelectSeq(records, LAMBDA x : x.keyword = kw /\ x.data[1] = id)

Dataset(records, id) ==
  LET name == get_only_or(OfDataset(records, <<"DATASET">>, id)).value
      project == get_only_or(OfDataset(records, <<"PROJECT">>, id)).value
      crystal == get_only_or(OfDataset(records, <<"CRYSTAL">>, id)).value
      cell == get_only_or(OfDataset(records, <<"DCELL">>, id)).value
      wavelength == get_only_or(OfDataset(records, <<"DWAVEL">>, id)).value
  IN [id |-> id,
      name |-> IF name # None THEN Some(name[1].data[2]) ELSE None,
      project |-> IF project # None THEN Some(project[1].data[2]) ELSE None,
      crystal |-> IF crystal # None THEN Some(crystal[1].data[2]) ELSE None,
      cell |-> IF cell # None THEN Some(SliceFrom(cell[1].data, 1)) ELSE None,
      wavelength |-> IF wavelength # None THEN Some(wavelength[1].data[2]) ELSE None]

_extract_datasets(records) ==
  LET ids == dataset_ids(records)
      ndatasets == get_only(WithKeyword(records, {<<"NDIF">>}))
      order == Ascending(ids)
  IN IF ndatasets.exc # OK THEN [exc |-> ndatasets.exc, datasets |-> <<>>]
     ELSE IF Cardinality(ids) # ndatasets.value[1].data
     THEN [exc |-> "InconsistentHeaderError", datasets |-> <<>>]
     ELSE IF \E id \in ids : \E kw \in DatasetKeywords :
               get_only_or(OfDataset(records, kw, id)).exc # OK
     THEN [exc |-> "ValueError", datasets |-> <<>>]
     ELSE [exc |-> OK, datasets |-> [k \in 1..Len(order) |-> Dataset(records, order[k])]]

DataType ==
  {"H", "J", "F", "D", "Q", "G", "L", "K", "M", "E", "P", "W", "A", "B", "Y", "I", "R"}

\* the COLSRC lookup of line 288
ColumnSource(records, name) ==
  get_only(SelectSeq(records, LAMBDA x : x.keyword = <<"COLSRC">> /\ x.data[1] = name))

\* the first Dataset taken for every column, whatever its id
ColumnDataset_first(datasets, datasetID) ==
  IF datasets = <<>> THEN get_only(datasets) ELSE get_only(SubSeq(datasets, 1, 1))

\* the Dataset lookup of line 289
ColumnDataset(datasets, datasetID) ==
  get_only(SelectSeq(datasets, LAMBDA x : x.id = datasetID))

Column(records, datasets, c) ==
  LET source == ColumnSource(records, c[1]).value
      dataset == ColumnDataset(datasets, c[5]).value
  IN [name |-> c[1], type |-> c[2], range |-> <<c[3], c[4]>>,
      source |-> IF source # None THEN Some(source[1].data[2]) ELSE None,
      dataset |-> dataset[1]]

_extract_columns(records, datasets) ==
  LET ncolumns == get_only(WithKeyword(records, {<<"NCOL">>}))
      cols == WithKeyword(records, ColumnKeywords)
  IN IF ncolumns.exc # OK THEN [exc |-> ncolumns.exc, columns |-> <<>>]
     ELSE IF \E k \in 1..Len(cols) :
               \/ ColumnSource(records, cols[k].data[1]).exc # OK
               \/ ColumnDataset(datasets, cols[k].data[5]).exc # OK
               \/ cols[k].data[2] \notin DataType
     THEN [exc |-> "ValueError", columns |-> <<>>]
     ELSE [exc |-> OK,
           columns |-> [k \in 1..Len(cols) |-> Column(records, datasets, cols[k].data)]]

NoHeader ==
  [raw_records |-> <<>>, history |-> <<>>, batches |-> <<>>, datasets |-> <<>>,
   columns |-> <<>>, version |-> <<>>, title |-> <<>>]

\* the NCOL record removed with the records of lines 316-318
Extracted_with_NCOL ==
  {<<"NDIF">>, <<"PROJECT">>, <<"DCELL">>, <<"DATASET">>, <<"CRYSTAL">>, <<"DWAVEL">>,
   <<"COL">>, <<"COLUMN">>, <<"COLSRC">>, <<"VERS">>, <<"TITLE">>, <<"NCOL">>}

Extracted ==
  {<<"NDIF">>, <<"PROJECT">>, <<"DCELL">>, <<"DATASET">>, <<"CRYSTAL">>, <<"DWAVEL">>,
   <<"COL">>, <<"COLUMN">>, <<"COLSRC">>, <<"VERS">>, <<"TITLE">>}

\* Header.__init__
Header(raw_records, hist, bats) ==
  LET ds == _extract_datasets(raw_records)
      cs == _extract_columns(raw_records, ds.datasets)
      version == get_only(WithKeyword(raw_records, {<<"VERS">>}))
      title == get_only(WithKeyword(raw_records, {<<"TITLE">>}))
  IN IF ds.exc # OK THEN [exc |-> ds.exc, header |-> NoHeader]
     ELSE IF cs.exc # OK THEN [exc |-> cs.exc, header |-> NoHeader]
     ELSE IF version.exc # OK THEN [exc |-> version.exc, header |-> NoHeader]
     ELSE IF title.exc # OK THEN [exc |-> title.exc, header |-> NoHeader]
     ELSE [exc |-> OK,
           header |-> [raw_records |-> WithoutKeyword(raw_records, Extracted),
                       history |-> hist, batches |-> bats,
                       datasets |-> ds.datasets, columns |-> cs.columns,
                       version |-> version.value[1].data,
                       title |-> title.value[1].data]]

\* itertools.chain of the data of the BATCH records
RECURSIVE Chain(_)
Chain(records) ==
  IF records = <<>> THEN <<>> ELSE Head(records).data \o Chain(Tail(records))

header_batch_entries(records) == Chain(WithKeyword(records, {<<"BATCH">>}))

\* the serials compared as sets, whatever their order
SerialsMatch_unordered(entries, bats) ==
  {entries[k] : k \in 1..Len(entries)} = {bats[k].serial : k \in 1..Len(bats)}

\* the serial test of lines 166-168 over zip(header_batch_entries, batches)
SerialsMatch(entries, bats) ==
  \A k \in 1..Min(Len(entries), Len(bats)) : entries[k] = bats[k].serial

\* the batch count test of line 163
BatchCountMatches(entries, bats) == Len(entries) = Len(bats)

\* the column count taken as a lower bound on the COL/COLUMN records
ColumnCountMatches_atmost(ncols, records) == ncols <= Len(WithKeyword(records, ColumnKeywords))

\* the column count compared with the number of all records
ColumnCountMatches_all(ncols, records) == ncols = Len(records)

\* the column count test of line 172
ColumnCountMatches(ncols, records) == ncols = Len(WithKeyword(records, ColumnKeywords))

\* _parse_header from line 161 on
Validate(records, nc, hist, bats) ==
  LET entries == header_batch_entries(records)
      kept == WithoutKeyword(records, {<<"BATCH">>})
  IN IF ~BatchCountMatches(entries, bats)
     THEN [exc |-> "InconsistentHeaderError", header |-> NoHeader]
     ELSE IF ~SerialsMatch(entries, bats)
     THEN [exc |-> "InconsistentHeaderError", header |-> NoHeader]
     ELSE IF ~ColumnCountMatches(nc[1], kept)
     THEN [exc |-> "InconsistentHeaderError", header |-> NoHeader]
     ELSE Header(kept, hist, bats)

-----------------------------------------------------------------------------
(* The decode of one file: MTZFile.__init__ and _parse_header *)

\* an exception caught inside the loop that raised it, the loop left to go on
Fail_retried(exc, kw, p) ==
  /\ pos' = 0
  /\ seeks' = <<>>
  /\ pc' = "open"
  /\ header_records' = <<>>
  /\ ncol' = <<0, 0, 0>>
  /\ history' = <<>>
  /\ batches' = <<>>
  /\ acc' = <<>>
  /\ UNCHANGED <<file, result, errkw, header>>
  /\ UNCHANGED listvars

\* list objects are told apart by the order of their creation; the two default lists
\* of line 308 are created once, when the class statement is executed
NoList == 0
DefaultHistory == 0 - 1
DefaultBatches == 0 - 2

\* no Header, so no list object held
NoHeld == [history |-> NoList, batches |-> NoList]

Header_init_defaults(history_arg, batches_arg) ==
  [history |-> DefaultHistory, batches |-> DefaultBatches]

\* Header.__init__, lines 308-310: an argument that is not passed is the default list
Header_init(history_arg, batches_arg) ==
  [history |-> IF history_arg = None THEN DefaultHistory ELSE history_arg[1],
   batches |-> IF batches_arg = None THEN DefaultBatches ELSE batches_arg[1]]

\* an exception leaves the decode: no Header is constructed
Fail(exc, kw, p) ==
  /\ result' = exc
  /\ errkw' = kw
  /\ pos' = p
  /\ pc' = "done"
  /\ UNCHANGED <<file, seeks, header_records, ncol, history, batches, acc, header>>
  /\ UNCHANGED listvars

\* the keyword the error message names: only the IOError of line 256 names one
Named(record) == IF record.exc = "IOError" THEN record.keyword ELSE NoKeyword

\* MTZFile.__init__, lines 325-334: the preamble and the seek
Open ==
  /\ pc = "open"
  /\ IF file.magic # MTZMagic THEN Fail("IOError", NoKeyword, WordSize)
     ELSE IF file.tag # NumberFormat THEN Fail("AssertionError", NoKeyword, 3 * WordSize)
     ELSE /\ seeks' = Append(seeks, HeaderStart(file))
          /\ pos' = HeaderStart(file)
          /\ pc' = "phase1"
          /\ UNCHANGED <<file, header_records, ncol, history, batches, acc, result,
                         errkw, header>>
          /\ UNCHANGED listvars

\* the loop of lines 139-143 with the END record appended before the loop is left
ReadHeaderRecord_keeps_END ==
  /\ pc = "phase1"
  /\ LET r == _read_record(file, pos, <<>>)
         record == r.rec
         ncols == get_only(WithKeyword(header_records, {<<"NCOL">>}))
     IN IF record.exc # OK THEN Fail(record.exc, Named(record), r.pos)
        ELSE IF record.keyword = <<"END">>
        THEN IF ncols.exc # OK THEN Fail(ncols.exc, NoKeyword, r.pos)
             ELSE /\ ncol' = ncols.value[1].data
                  /\ header_records' = Append(header_records, record)
                  /\ pos' = r.pos
                  /\ pc' = "phase2"
                  /\ UNCHANGED <<file, seeks, history, batches, acc, result, errkw, header>>
                  /\ history_id' = lists + 1
                  /\ batches_id' = lists + 2
                  /\ lists' = lists + 2
                  /\ UNCHANGED <<held, made>>
        ELSE /\ header_records' = Append(header_records, record)
             /\ pos' = r.pos
             /\ UNCHANGED <<file, seeks, pc, ncol, history, batches, acc, result,
                            errkw, header>>
             /\ UNCHANGED listvars

\* one turn of the loop of lines 139-143, and line 146 when it ends
ReadHeaderRecord ==
  /\ pc = "phase1"
  /\ LET r == _read_record(file, pos, <<>>)
         record == r.rec
         ncols == get_only(WithKeyword(header_records, {<<"NCOL">>}))
     IN IF record.exc # OK THEN Fail(record.exc, Named(record), r.pos)
        ELSE IF record.keyword = <<"END">>
        THEN IF ncols.exc # OK THEN Fail(ncols.exc, NoKeyword, r.pos)
             ELSE /\ ncol' = ncols.value[1].data
                  /\ pos' = r.pos
                  /\ pc' = "phase2"
                  /\ UNCHANGED <<file, seeks, header_records, history, batches, acc,
                                 result, errkw, header>>
                  /\ history_id' = lists + 1
                  /\ batches_id' = lists + 2
                  /\ lists' = lists + 2
                  /\ UNCHANGED <<held, made>>
        ELSE /\ header_records' = Append(header_records, record)
             /\ pos' = r.pos
             /\ UNCHANGED <<file, seeks, pc, ncol, history, batches, acc, result,
                            errkw, header>>
             /\ UNCHANGED listvars

\* one turn of the loop of lines 151-159
ReadPostHeader ==
  /\ pc = "phase2"
  /\ LET r == _read_record(file, pos, <<>>)
         postheader == r.rec
         lines == read_lines(file, r.pos, postheader.data)
     IN IF postheader.exc # OK THEN Fail(postheader.exc, Named(postheader), r.pos)
        ELSE IF postheader.keyword = <<"MTZHIST">>
        THEN /\ history' = lines.lines
             /\ pos' = lines.pos
             /\ UNCHANGED <<file, seeks, pc, header_records, ncol, batches, acc, result,
                            errkw, header>>
             /\ history_id' = lists + 1
             /\ lists' = lists + 1
             /\ UNCHANGED <<batches_id, held, made>>
        ELSE IF postheader.keyword = <<"MTZBATS">>
        THEN /\ pos' = r.pos
             /\ lists' = lists + 1
             /\ IF ncol[3] <= 0
                THEN batches' = <<>> /\ batches_id' = lists + 1 /\ UNCHANGED <<pc, acc>>
                ELSE pc' = "bats" /\ acc' = <<>> /\ UNCHANGED <<batches, batches_id>>
             /\ UNCHANGED <<file, seeks, header_records, ncol, history, result, errkw,
                            header, history_id, held, made>>
        ELSE /\ pos' = r.pos
             /\ pc' = IF postheader.keyword = <<"MTZENDOFHEADERS">> THEN "validate" ELSE pc
             /\ UNCHANGED <<file, seeks, header_records, ncol, history, batches, acc,
                            result, errkw, header>>
             /\ UNCHANGED listvars

\* one _parse_batch of the comprehension of line 157; the list is assigned when it is
\* complete, and it is the list created last, when the comprehension was entered
ParseBatch ==
  /\ pc = "bats"
  /\ LET b == _parse_batch(file, pos)
     IN IF b.exc # OK THEN Fail(b.exc, NoKeyword, b.pos)
        ELSE /\ pos' = b.pos
             /\ IF Len(acc) + 1 = ncol[3]
                THEN /\ batches' = Append(acc, b.batch) /\ acc' = <<>> /\ pc' = "phase2"
                     /\ batches_id' = lists
                ELSE acc' = Append(acc, b.batch) /\ UNCHANGED <<batches, pc, batches_id>>
             /\ UNCHANGED <<file, seeks, header_records, ncol, history, result, errkw,
                            header, lists, history_id, held, made>>

\* lines 161-175 and Header.__init__
Finish ==
  /\ pc = "validate"
  /\ LET v == Validate(header_records, ncol, history, batches)
     IN IF v.exc # OK THEN Fail(v.exc, NoKeyword, pos)
        ELSE /\ header' = v.header
             /\ result' = "Header"
             /\ pc' = "done"
             /\ UNCHANGED <<file, pos, seeks, header_records, ncol, history, batches,
                            acc, errkw>>
             /\ held' = Header_init(Some(history_id), Some(batches_id))
             /\ UNCHANGED <<lists, history_id, batches_id, made>>

Next == Open \/ ReadHeaderRecord \/ ReadPostHeader \/ ParseBatch \/ Finish

-----------------------------------------------------------------------------
(* The input files.  Every file is a preamble and the items stored from the *)
(* header offset on.  The files are drawn from families, each varying one   *)
(* part of the layout an MTZ writer produces and keeping the rest fixed.    *)
(* In a batch whose counts pass the tests of lines 119-122 the word arrays  *)
(* have the lengths the BH record declares.                                 *)

MaxJunk == 3       \* characters of a record with an unknown keyword
MaxCard == 4       \* records of a header of VERS, TITLE, NCOL and NDIF records
MaxCols == 4       \* COL, COLUMN and COLSRC records of a header
MaxDs == 3         \* dataset records of a header
MaxPost == 2       \* blocks of a post-header section
MaxBatches == 2    \* well-formed batches of a batch block

SeqsUpTo(S, n) == UNION {[1..k -> S] : k \in 0..n}

RECURSIVE Concat(_)
Concat(ss) == IF ss = <<>> THEN <<>> ELSE Head(ss) \o Concat(Tail(ss))

\* the words of a record joined by single spaces and padded with a space
RECURSIVE Text(_)
Text(words) == IF words = <<>> THEN <<>> ELSE <<Head(words), SP>> \o Text(Tail(words))

Glyph(n) == CHOOSE g \in IntGlyphs : IntOf(g) = n

Recs(raws) == [i \in 1..Len(raws) |-> Rc(raws[i])]

VERS == Text(<<"VERS", "MTZ:V1.1">>)
TITLE == Text(<<"TITLE", "some", "title">>)
NCOL(c, b) == Text(<<"NCOL", Glyph(c), "0", Glyph(b)>>)
NDIF(n) == Text(<<"NDIF", Glyph(n)>>)
END == Text(<<"END">>)
MTZENDOFHEADERS == Text(<<"MTZENDOFHEADERS">>)
MTZBATS == Text(<<"MTZBATS">>)
MTZHIST(n) == Text(<<"MTZHIST", Glyph(n)>>)
BATCH(serials) == Text(<<"BATCH">> \o [i \in 1..Len(serials) |-> Glyph(serials[i])])
BH(serial, nwords, nintegers, nreals) ==
  Text(<<"BH", Glyph(serial), Glyph(nwords), Glyph(nintegers), Glyph(nreals)>>)
BHCH == Text(<<"BHCH", "AXIS">>)

File(magic, offset, tag, body) ==
  [magic |-> magic, offset |-> offset, tag |-> tag, body |-> body]

\* a file with a valid preamble whose header follows the preamble directly
Plain(raws) == File(MTZMagic, 4, NumberFormat, raws)

Tail2 == <<Rc(END), Rc(MTZENDOFHEADERS)>>

\* preambles: wrong magic, wrong number format, a header further into the file
PreambleFiles ==
  {File(m, o, t, Recs(<<VERS, TITLE, NCOL(0, 0), NDIF(0)>>) \o Tail2) :
     m \in {MTZMagic, "XXXX"}, o \in {4, 21}, t \in {NumberFormat, "01 02 00 00"}}

\* one record of single characters that spell no known keyword, or no record at all
JunkChars == {"X", "Q"}

JunkFiles ==
  {Plain(IF j = <<>> THEN <<>> ELSE Recs(<<j>>)) : j \in SeqsUpTo(JunkChars \cup {SP}, MaxJunk)}

\* headers of VERS, TITLE, NCOL and NDIF records in any number and order
CardFiles ==
  {Plain(Recs(h) \o Tail2) : h \in SeqsUpTo({VERS, TITLE, NCOL(0, 0), NDIF(0)}, MaxCard)}
    \cup
  {Plain(Recs(<<VERS, TITLE, NCOL(0, 0), NDIF(0), twice>>) \o Tail2) :
     twice \in {VERS, TITLE, NCOL(0, 0), NDIF(0)}}

\* a header holding one record that is malformed, or a file that ends early
Malformed ==
  {Text(<<"NCOL", "0", "0">>), Text(<<"NCOL", "x", "0", "0">>), Text(<<"FOO", "1">>),
   Text(<<"CELL", "1", "1", "1">>), Text(<<"COL", "a", "H", "0", "1">>),
   Text(<<"COL", "a", "H", "0", "1", "x">>), Text(<<"NDIF", "x">>),
   Text(<<"SORT", "1", "2">>), Text(<<"RESO", "x", "1">>), Text(<<"BATCH", "x">>),
   Text(<<"COLSRC", "a", "src">>), Text(<<"DWAVEL", "0">>), <<"END">>}

MalformedFiles ==
  {Plain(Recs(<<VERS, TITLE, NCOL(0, 0), NDIF(0), m>>) \o Tail2) : m \in Malformed}
    \cup {Plain(Recs(<<VERS, TITLE, NCOL(0, 0), NDIF(0)>>)),
          Plain(Recs(<<VERS, TITLE, NCOL(0, 0), NDIF(0), END>>)),
          Plain(Recs(<<VERS, TITLE, NCOL(0, 0), NDIF(0), END, Text(<<"FOO">>)>>)),
          Plain(Recs(<<VERS, TITLE, NCOL(0, 0), NDIF(0), END, Text(<<"MTZHIST", "x">>)>>))}

\* column records in any number and order, against the declared counts
ColPool ==
  {Text(<<"COL", "a", "H", "0", "1", "0">>), Text(<<"COLUMN", "b", "J", "0", "1", "1">>),
   Text(<<"COLSRC", "a", "CREATED_1", "0">>), Text(<<"COLSRC", "b", "CREATED_2", "1">>)}

ColFiles ==
  {Plain(Recs(<<VERS, TITLE, NCOL(c, 0)>> \o cb \o <<NDIF(n)>>) \o Tail2) :
     c \in 1..2, n \in 1..2, cb \in SeqsUpTo(ColPool, MaxCols)}

\* dataset records in any number and order, against the declared count
DsPool ==
  {Text(<<"DATASET", "0", "d0">>), Text(<<"DATASET", "1", "d1">>),
   Text(<<"PROJECT", "0", "p0">>), Text(<<"CRYSTAL", "1", "c1">>),
   Text(<<"DCELL", "0", "1", "1", "1", "2", "2", "2">>), Text(<<"DWAVEL", "1", "1">>)}

DsFiles ==
  {Plain(Recs(<<VERS, TITLE, NCOL(0, 0)>> \o db \o <<NDIF(n)>>) \o Tail2) :
     n \in 0..2, db \in SeqsUpTo(DsPool, MaxDs)}

\* the batches of a batch block
BTITLE == Text(<<"TITLE", "batch">>)

Words(vals) == [i \in 1..Len(vals) |-> W4(vals[i])]

BatchItems(bh, title, words, bhch) == <<Rc(bh), Rc(title)>> \o Words(words) \o <<Rc(bhch)>>

\* a batch of nintegers integers and no reals that passes the tests of lines 119-122
Good(serial, nintegers) ==
  BatchItems(BH(serial, nintegers, nintegers, 0), BTITLE,
             <<nintegers, nintegers, 0>> \o [i \in 1..(nintegers - 3) |-> i], BHCH)

GoodBatches == {Good(1, 3), Good(1, 4), Good(1, 2), Good(2, 3)}

\* batches that fail: a confirmation word that differs, counts that do not add up,
\* a batch with reals, a wrong keyword in the TITLE or BHCH position, a file that ends
BadBatches ==
  {BatchItems(BH(1, 3, 3, 0), BTITLE, <<4, 3, 0>>, BHCH),
   BatchItems(BH(1, 3, 3, 0), BTITLE, <<3, 4, 0>>, BHCH),
   BatchItems(BH(1, 3, 3, 0), BTITLE, <<3, 3, 1>>, BHCH),
   BatchItems(BH(1, 5, 3, 1), BTITLE, <<5, 3, 1, 0>>, BHCH),
   BatchItems(BH(1, 4, 3, 1), BTITLE, <<4, 3, 1, 0>>, BHCH),
   BatchItems(BH(1, 3, 3, 0), BHCH, <<3, 3, 0>>, BHCH),
   BatchItems(BH(1, 3, 3, 0), BTITLE, <<3, 3, 0>>, BTITLE),
   BatchItems(BH(1, 3, 3, 0), Text(<<"FOO", "1">>), <<3, 3, 0>>, BHCH)}

BatsBlocks ==
  {<<Rc(MTZBATS)>> \o Concat(gs) : gs \in SeqsUpTo(GoodBatches, MaxBatches)}
    \cup
  {<<Rc(MTZBATS)>> \o Concat(gs) \o bad \o Good(2, 3) :
     gs \in {<<>>, <<Good(1, 3)>>}, bad \in BadBatches}

\* the BATCH records of a header
BatchRecs ==
  {<<>>, <<BATCH(<<1>>)>>, <<BATCH(<<1, 2>>)>>, <<BATCH(<<1>>), BATCH(<<2>>)>>,
   <<BATCH(<<2>>), BATCH(<<1>>)>>}

\* one batch block against the declared batch count and the BATCH records
BatchFiles ==
  {Plain(Recs(<<VERS, TITLE, NCOL(0, nb), NDIF(0)>> \o br \o <<END>>) \o blk
         \o <<Rc(MTZENDOFHEADERS)>>) :
     nb \in (0 - 1)..MaxBatches, br \in BatchRecs, blk \in BatsBlocks}

\* post-header sections of several blocks, ended by MTZENDOFHEADERS or by the file
Lx == Text(<<"From", "x">>)
Ly == Text(<<"y">>)

HistBlock(n, lines) == <<Rc(MTZHIST(n))>> \o Recs(lines)

PostBlocks ==
  {HistBlock(0, <<>>), HistBlock(1, <<Lx>>), HistBlock(2, <<Ly, Lx>>),
   HistBlock(0 - 1, <<>>), HistBlock(2, <<Lx>>),
   <<Rc(MTZBATS)>> \o Good(1, 3), <<Rc(MTZBATS)>> \o Good(2, 3),
   <<Rc(MTZBATS), Rc(BH(1, 3, 3, 0)), Rc(BTITLE), W4(3)>>}

PostFiles ==
  {Plain(Recs(<<VERS, TITLE, NCOL(0, nb), NDIF(0)>> \o br \o <<END>>) \o Concat(blks) \o e) :
     nb \in {1}, br \in {<<>>, <<BATCH(<<1>>)>>, <<BATCH(<<2>>)>>},
     blks \in SeqsUpTo(PostBlocks, MaxPost), e \in {<<>>, <<Rc(MTZENDOFHEADERS)>>}}

\* records out of their usual place: post-header keywords before END, a history line
\* that reads MTZENDOFHEADERS, a second END, records after MTZENDOFHEADERS
PhaseFiles ==
  {Plain(Recs(<<VERS, TITLE, NCOL(0, 0), NDIF(0)>> \o pre \o <<END>> \o post
              \o <<MTZENDOFHEADERS>> \o trail)) :
     pre \in {<<>>, <<MTZENDOFHEADERS>>, <<MTZBATS>>, <<MTZHIST(1)>>},
     post \in {<<>>, <<END>>, <<MTZHIST(1), MTZENDOFHEADERS>>, <<VERS>>},
     trail \in {<<>>, <<Text(<<"FOO">>)>>, <<END>>, <<MTZENDOFHEADERS>>}}

Files ==
  PreambleFiles \cup JunkFiles \cup CardFiles \cup MalformedFiles \cup ColFiles
    \cup DsFiles \cup BatchFiles \cup PostFiles \cup PhaseFiles

Init ==
  /\ file \in Files
  /\ pos = 0
  /\ seeks = <<>>
  /\ pc = "open"
  /\ header_records = <<>>
  /\ ncol = <<0, 0, 0>>
  /\ history = <<>>
  /\ batches = <<>>
  /\ acc = <<>>
  /\ result = "running"
  /\ errkw = NoKeyword
  /\ header = NoHeader
  /\ lists = 0
  /\ history_id = NoList
  /\ batches_id = NoList
  /\ held = NoHeld
  /\ made = <<>>

Spec == Init /\ [][Next]_vars

\* a program that opens one MTZFile after another: the files of a session have a
\* post-header section of no block, a history block, a batch block, or two blocks
MaxDecodes == 2    \* decodes of a session

SessionFiles ==
  {Plain(Recs(<<VERS, TITLE, NCOL(0, 1), NDIF(0)>> \o br \o <<END>>) \o Concat(blks)
         \o <<Rc(MTZENDOFHEADERS)>>) :
     br \in {<<>>, <<BATCH(<<1>>)>>},
     blks \in {<<>>, <<HistBlock(1, <<Lx>>)>>, <<<<Rc(MTZBATS)>> \o Good(1, 3)>>,
              <<HistBlock(1, <<Lx>>), <<Rc(MTZBATS)>> \o Good(1, 3)>>,
              <<HistBlock(1, <<Lx>>), HistBlock(0, <<>>)>>}}

\* the next MTZFile(filename) of the program: a new stream, and the names of
\* _parse_header unbound again; the list objects made so far stay what they are
NextDecode ==
  /\ pc = "done"
  /\ Len(made) + 1 < MaxDecodes
  /\ file' \in SessionFiles
  /\ made' = Append(made, held)
  /\ pos' = 0
  /\ seeks' = <<>>
  /\ pc' = "open"
  /\ header_records' = <<>>
  /\ ncol' = <<0, 0, 0>>
  /\ history' = <<>>
  /\ batches' = <<>>
  /\ acc' = <<>>
  /\ result' = "running"
  /\ errkw' = NoKeyword
  /\ header' = NoHeader
  /\ history_id' = NoList
  /\ batches_id' = NoList
  /\ held' = NoHeld
  /\ UNCHANGED lists

SessionInit == Init /\ file \in SessionFiles

SessionNext == Next \/ NextDecode

SessionSpec == SessionInit /\ [][SessionNext]_vars

\* every handler has a branch for each outcome of its reads, so a step of the decode
\* can be taken exactly while the decode has not ended
EnabledNext == pc # "done"

\* the decode is straight-line code on one thread of control, so a step that can be
\* taken is taken: weak fairness of Next, WF_vars(Next), with ENABLED <<Next>>_vars
\* written out as EnabledNext
Fairness == []<>(~EnabledNext) \/ []<><<Next>>_vars

LiveSpec == Init /\ [][Next]_vars /\ Fairness

-----------------------------------------------------------------------------
(* What the input file holds, read off the file itself *)

IsKw(item, kw) ==
  item.t = "rec" /\ Len(item.raw) >= 2 /\ item.raw[1] = kw /\ item.raw[2] = SP

HasEnd(f) == \E i \in 1..Len(f.body) : IsKw(f.body[i], "END")

EndIndex(f) ==
  CHOOSE i \in 1..Len(f.body) :
    IsKw(f.body[i], "END") /\ \A j \in 1..(i - 1) : ~IsKw(f.body[j], "END")

\* the items before the first END record
Primary(f) == IF HasEnd(f) THEN SubSeq(f.body, 1, EndIndex(f) - 1) ELSE f.body

\* the items after the first END record
PostHeader(f) == IF HasEnd(f) THEN SubSeq(f.body, EndIndex(f) + 1, Len(f.body)) ELSE <<>>

OfKind(items, kws) == SelectSeq(items, LAMBDA x : \E kw \in kws : IsKw(x, kw))

\* the k-th field of a record, as written
Field(item, k) == split(item.raw)[k + 1]

Fields(item) == Tail(split(item.raw))

DeclaredCols(f) == IntOf(Field(OfKind(Primary(f), {"NCOL"})[1], 1))

DeclaredBatches(f) == IntOf(Field(OfKind(Primary(f), {"NCOL"})[1], 3))

DeclaredDatasets(f) == IntOf(Field(OfKind(Primary(f), {"NDIF"})[1], 1))

InputColumns(f) == OfKind(Primary(f), {"COL", "COLUMN"})

\* the integers of the BATCH records, in header order
RECURSIVE SerialsOf(_)
SerialsOf(items) ==
  IF items = <<>> THEN <<>>
  ELSE [k \in 1..Len(Fields(Head(items))) |-> IntOf(Fields(Head(items))[k])]
         \o SerialsOf(Tail(items))

InputBatchSerials(f) == SerialsOf(OfKind(Primary(f), {"BATCH"}))

\* the distinct dataset ids of the COL/COLUMN and dataset records
InputDatasetIds(f) ==
  {IntOf(Field(InputColumns(f)[k], 5)) : k \in 1..Len(InputColumns(f))}
    \cup
  LET ds == OfKind(Primary(f), {"PROJECT", "CRYSTAL", "DATASET", "DCELL", "DWAVEL"})
  IN {IntOf(Field(ds[k], 1)) : k \in 1..Len(ds)}

Serials(bats) == [k \in 1..Len(bats) |-> bats[k].serial]

\* the decode has read the file up to MTZENDOFHEADERS and its batches agree with the BATCH records
BatchesAgree == InputBatchSerials(file) = Serials(batches)

ColumnsAgree == DeclaredCols(file) = Len(InputColumns(file))

-----------------------------------------------------------------------------
(* Properties *)

\* C1: when the file has been read to MTZENDOFHEADERS (one NCOL record, every record
\* decoded) and NCOL field 1 differs from the number of COL/COLUMN records before END,
\* the decode ends in InconsistentHeaderError and constructs no Header; every Header
\* constructed has ncols = number of COL/COLUMN records = number of its columns.
C1_ColumnCount ==
  [][pc = "validate" =>
       /\ Len(OfKind(Primary(file), {"NCOL"})) = 1
       /\ ~ColumnsAgree => result' = "InconsistentHeaderError" /\ header' = NoHeader
       /\ result' = "Header" =>
            ColumnsAgree /\ Len(header'.columns) = DeclaredCols(file)]_vars

\* C1 witness: a file with one NCOL record and no BATCH records whose column count
\* differs was read to the end and rejected with InconsistentHeaderError
C1_Witness ==
  /\ pc = "done" /\ result = "InconsistentHeaderError"
  /\ Len(OfKind(Primary(file), {"NCOL"})) = 1
  /\ Len(InputColumns(file)) = 2 /\ DeclaredCols(file) = 1
  /\ InputBatchSerials(file) = <<>> /\ batches = <<>>

\* C2 (as claimed): every Header has as many batches as NCOL field 3 declares
C2_BatchCountDeclared ==
  result = "Header" => Len(header.batches) = DeclaredBatches(file)

\* C3: when the file has been read to MTZENDOFHEADERS, a difference in length or in any
\* position between the integers of the BATCH records and the serials of the decoded
\* batches ends the decode in InconsistentHeaderError; every Header constructed has
\* batches whose serials are, in order, the integers of the BATCH records.
C3_BatchSerials ==
  [][pc = "validate" =>
       /\ ~BatchesAgree => result' = "InconsistentHeaderError" /\ header' = NoHeader
       /\ result' = "Header" => InputBatchSerials(file) = Serials(header'.batches)]_vars

\* C3 witness: two BATCH integers and two decoded batches of the same serials in
\* another order were rejected
C3_Witness ==
  /\ pc = "done" /\ result = "InconsistentHeaderError"
  /\ InputBatchSerials(file) = <<1, 2>> /\ Serials(batches) = <<2, 1>>

\* C4: when the file has been read to MTZENDOFHEADERS, the batch and column checks pass
\* and there is exactly one NDIF record, an NDIF value that differs from the number of
\* distinct dataset ids ends the decode in InconsistentHeaderError with no Header.
C4_DatasetCount ==
  [][(/\ pc = "validate" /\ BatchesAgree /\ ColumnsAgree
      /\ Len(OfKind(Primary(file), {"NDIF"})) = 1
      /\ DeclaredDatasets(file) # Cardinality(InputDatasetIds(file)))
       => result' = "InconsistentHeaderError" /\ header' = NoHeader]_vars

\* C4 witness: NDIF 2 with one distinct dataset id was rejected
C4_Witness ==
  /\ pc = "done" /\ result = "InconsistentHeaderError"
  /\ BatchesAgree /\ ColumnsAgree
  /\ Len(OfKind(Primary(file), {"NDIF"})) = 1
  /\ DeclaredDatasets(file) = 2 /\ Cardinality(InputDatasetIds(file)) = 1

MinimalRecords == <<VERS, TITLE, NCOL(0, 0)>>

Empty(h) == h.columns = <<>> /\ h.batches = <<>> /\ h.datasets = <<>>

\* C5 (as claimed): the decode of VERS, TITLE, NCOL 0 0 0, END, MTZENDOFHEADERS
\* succeeds with an empty Header
C5_MinimalNoNDIF ==
  (pc = "done" /\ file = Plain(Recs(MinimalRecords) \o Tail2))
    => result = "Header" /\ Empty(header)

\* C5 (amended): the decode of VERS, TITLE, NCOL 0 0 0, NDIF 0, END, MTZENDOFHEADERS
\* succeeds with an empty Header; without the NDIF record it ends in a ValueError
C5_Minimal ==
  /\ (pc = "done" /\ file = Plain(Recs(MinimalRecords \o <<NDIF(0)>>) \o Tail2))
       => result = "Header" /\ Empty(header)
  /\ (pc = "done" /\ file = Plain(Recs(MinimalRecords) \o Tail2))
       => result = "ValueError" /\ header = NoHeader

\* C5 witness: the minimal file with NDIF 0 was decoded to a Header
C5_Witness ==
  /\ pc = "done" /\ result = "Header"
  /\ file = Plain(Recs(MinimalRecords \o <<NDIF(0)>>) \o Tail2)

\* the records of one kind that carry a given first field
Carrying(items, kws, v) == SelectSeq(OfKind(items, kws), LAMBDA x : Field(x, 1) = v)

\* everything but the COLSRC lookup is in order: the checks of lines 163-173 pass, one NDIF
\* record that agrees, one VERS, one TITLE, at most one record of each dataset kind per
\* id, known column types, and no column name with two COLSRC records
ValidButForSources(f) ==
  /\ BatchesAgree /\ ColumnsAgree
  /\ Len(OfKind(Primary(f), {"NDIF"})) = 1
  /\ DeclaredDatasets(f) = Cardinality(InputDatasetIds(f))
  /\ Len(OfKind(Primary(f), {"VERS"})) = 1
  /\ Len(OfKind(Primary(f), {"TITLE"})) = 1
  /\ \A kw \in {"PROJECT", "CRYSTAL", "DATASET", "DCELL", "DWAVEL"} :
       \A id \in IntGlyphs : Len(Carrying(Primary(f), {kw}, id)) <= 1
  /\ \A k \in 1..Len(InputColumns(f)) :
       /\ Field(InputColumns(f)[k], 2) \in DataType
       /\ Len(Carrying(Primary(f), {"COLSRC"}, Field(InputColumns(f)[k], 1))) <= 1

\* C6 (as claimed): a COL/COLUMN record without a COLSRC record of its name does not
\* stop the decode: the Header is constructed and that Column has no source
C6_SourceOptional ==
  [][(pc = "validate" /\ ValidButForSources(file)) =>
       /\ result' = "Header"
       /\ \A k \in 1..Len(InputColumns(file)) :
            Carrying(Primary(file), {"COLSRC"}, Field(InputColumns(file)[k], 1)) = <<>>
              => header'.columns[k].source = None]_vars

\* the batch at the cursor: a BH record of four integers, a TITLE record and three words
BatchAtCursor ==
  LET i == IndexAt(file, pos)
  IN /\ i > 0 /\ i + 4 <= Len(file.body)
     /\ IsKw(file.body[i], "BH") /\ Len(Fields(file.body[i])) = 4
     /\ \A k \in 1..4 : Fields(file.body[i])[k] \in IntGlyphs
     /\ IsKw(file.body[i + 1], "TITLE")
     /\ \A k \in 2..4 : file.body[i + k].t = "i4"

\* its confirmation words differ from the counts of its BH record, or the counts do not add up
BadCountsAtCursor ==
  LET i == IndexAt(file, pos)
      bh == [k \in 1..4 |-> IntOf(Fields(file.body[i])[k])]
  IN \/ \E k \in 2..4 : file.body[i + k].v # bh[k]
     \/ bh[3] + bh[4] # bh[2]

\* C7 (as claimed): a batch whose confirmation words or counts disagree ends the decode in
\* MTZFileError before its arrays and any later batch are read, with no Header
C7_BadCountsFormatError ==
  [][(pc = "bats" /\ BatchAtCursor /\ BadCountsAtCursor) =>
       /\ result' = "MTZFileError" /\ header' = NoHeader
       /\ pos' <= pos + 2 * RecordSize + 3 * WordSize]_vars

\* the history lines that follow the MTZHIST records: all of them, and those of the last one
RECURSIVE HistoryLines(_, _, _)
HistoryLines(items, all, last) ==
  IF items = <<>> THEN [all |-> all, last |-> last]
  ELSE IF IsKw(Head(items), "MTZHIST")
  THEN LET n == Min(Max(IntOf(Field(Head(items), 1)), 0), Len(items) - 1)
           lines == [k \in 1..n |-> strip(items[k + 1].raw)]
       IN HistoryLines(SubSeq(items, n + 2, Len(items)), all \o lines, lines)
  ELSE HistoryLines(Tail(items), all, last)

\* the serials of the BH records: all of them, and those after the last MTZBATS record
RECURSIVE BHSerials(_, _, _)
BHSerials(items, all, last) ==
  IF items = <<>> THEN [all |-> all, last |-> last]
  ELSE IF IsKw(Head(items), "MTZBATS") THEN BHSerials(Tail(items), all, <<>>)
  ELSE IF IsKw(Head(items), "BH")
  THEN BHSerials(Tail(items), Append(all, IntOf(Field(Head(items), 1))),
                 Append(last, IntOf(Field(Head(items), 1))))
  ELSE BHSerials(Tail(items), all, last)

ColumnNames(cols) == [k \in 1..Len(cols) |-> cols[k].name]

InputColumnNames(f) == [k \in 1..Len(InputColumns(f)) |-> Field(InputColumns(f)[k], 1)]

\* C8 (as claimed): a Header lists its columns in the order of the COL/COLUMN records,
\* every history line that follows an MTZHIST record and every batch of the stream, in order
C8_OrderAll ==
  result = "Header" =>
    /\ ColumnNames(header.columns) = InputColumnNames(file)
    /\ header.history = HistoryLines(PostHeader(file), <<>>, <<>>).all
    /\ Serials(header.batches) = BHSerials(PostHeader(file), <<>>, <<>>).all

\* C8 (amended): a Header lists its columns in the order of the COL/COLUMN records, the
\* history lines of the last MTZHIST block in stream order and the batches of the last
\* MTZBATS block in stream order; the lines and batches of earlier blocks are dropped
C8_Order ==
  result = "Header" =>
    /\ ColumnNames(header.columns) = InputColumnNames(file)
    /\ header.history = HistoryLines(PostHeader(file), <<>>, <<>>).last
    /\ Serials(header.batches) = BHSerials(PostHeader(file), <<>>, <<>>).last

\* C8 witness: a Header of a file with two MTZHIST blocks holds the two lines of the last
C8_Witness ==
  /\ result = "Header"
  /\ Len(OfKind(PostHeader(file), {"MTZHIST"})) = 2
  /\ Len(OfKind(PostHeader(file), {"MTZBATS"})) = 0
  /\ Len(header.history) = 2 /\ header.history[1] # header.history[2]

\* C9 (as claimed): a decode ends with a Header, an MTZFileError or an
\* InconsistentHeaderError and with nothing else
C9_TwoErrorKinds ==
  pc = "done" => result \in {"Header", "MTZFileError", "InconsistentHeaderError"}

KnownKeywords ==
  {<<"VERS">>, <<"TITLE">>, <<"NCOL">>, <<"CELL">>, <<"SORT">>, <<"SYMINF">>, <<"SYMM">>,
   <<"RESO">>, <<"VALM">>, <<"COL">>, <<"COLUMN">>, <<"NDIF">>, <<"PROJECT">>,
   <<"CRYSTAL">>, <<"DATASET">>, <<"DCELL">>, <<"DWAVEL">>, <<"BATCH">>, <<"COLSRC">>,
   <<"COLGRP">>, <<"END">>, <<"MTZHIST">>, <<"MTZENDOFHEADERS">>, <<"MTZBATS">>,
   <<"BH">>, <<"BHCH">>}

\* the text before the first space of a record, the whole record when it holds no space
TextBeforeSpace(raw) ==
  IF \E i \in 1..Len(raw) : raw[i] = SP
  THEN SubSeq(raw, 1, (CHOOSE i \in 1..Len(raw) : raw[i] = SP /\ \A j \in 1..(i - 1) : raw[j] # SP) - 1)
  ELSE raw

\* the text of the record at the cursor, empty at the end of the file
RecordAtCursor ==
  IF pos >= EndOf(file) THEN <<>> ELSE file.body[IndexAt(file, pos)].raw

\* C10 (as claimed): a record read by the header loops whose keyword is unknown, a record
\* without a space and a zero-length read included, ends the decode in an MTZFileError
\* that names exactly that keyword
C10_UnknownKeywordNamed ==
  [][(/\ pc \in {"phase1", "phase2"}
      /\ (pos >= EndOf(file) \/ (IndexAt(file, pos) > 0 /\ file.body[IndexAt(file, pos)].t = "rec"))
      /\ TextBeforeSpace(RecordAtCursor) \notin KnownKeywords)
       => /\ result' = "MTZFileError"
          /\ errkw' = TextBeforeSpace(RecordAtCursor)]_vars

DatasetsOf(h) == {h.datasets[k] : k \in 1..Len(h.datasets)}

\* C11: every Column of a Header refers to one of the Header's Datasets, whose id is the
\* 5th field of the Column's COL/COLUMN record; no two Datasets of a Header share an id;
\* and once the records are collected, a dataset extraction that succeeds leaves
\* exactly one Dataset for the id of every COL/COLUMN record.
C11_DatasetResolves ==
  /\ result = "Header" =>
       /\ \A k \in 1..Len(header.columns) :
            /\ header.columns[k].dataset \in DatasetsOf(header)
            /\ header.columns[k].dataset.id = IntOf(Field(InputColumns(file)[k], 5))
       /\ \A i, j \in 1..Len(header.datasets) :
            header.datasets[i].id = header.datasets[j].id => i = j
  /\ (pc = "validate" /\ _extract_datasets(header_records).exc = OK) =>
       \A c \in 1..Len(WithKeyword(header_records, ColumnKeywords)) :
         ColumnDataset(_extract_datasets(header_records).datasets,
                       WithKeyword(header_records, ColumnKeywords)[c].data[5]).exc = OK

\* C11 witness: a Header of two columns that belong to two different Datasets
C11_Witness ==
  /\ result = "Header" /\ Len(header.columns) = 2 /\ Len(header.datasets) = 2
  /\ header.columns[1].dataset # header.columns[2].dataset

\* the payload of a text record as written: what follows the keyword and its space, stripped
Payload(item) == strip(SubSeq(item.raw, 3, Len(item.raw)))

\* C12: a Header is constructed only from a primary header with exactly one VERS and
\* exactly one TITLE record, whose payloads are its version and title; the TITLE
\* records of the batches of the post-header section neither count nor change the title.
C12_OneVersOneTitle ==
  result = "Header" =>
    /\ Len(OfKind(Primary(file), {"VERS"})) = 1
    /\ Len(OfKind(Primary(file), {"TITLE"})) = 1
    /\ header.version = Payload(OfKind(Primary(file), {"VERS"})[1])
    /\ header.title = Payload(OfKind(Primary(file), {"TITLE"})[1])

\* C12 witness: a Header with a batch, whose TITLE record differs from the title of the Header
C12_Witness ==
  /\ result = "Header" /\ Len(header.batches) >= 1
  /\ OfKind(PostHeader(file), {"TITLE"}) # <<>>
  /\ header.batches[1].title # header.title

\* the record at the cursor has this keyword
CursorAt(kw) ==
  /\ pos < EndOf(file) /\ IndexAt(file, pos) > 0
  /\ IsKw(file.body[IndexAt(file, pos)], kw)

\* the cursor stands right behind an MTZENDOFHEADERS record of the post-header section
BehindEndOfHeaders ==
  \E i \in 1..Len(file.body) :
    /\ HasEnd(file) /\ i > EndIndex(file)
    /\ IsKw(file.body[i], "MTZENDOFHEADERS")
    /\ pos = StartOf(file, i + 1)

\* C13: the records collected are, in order, the decoded records of the file from the
\* header offset on, none of them END; once phase 1 is left they are exactly the records
\* before the first END; phase 2 is left exactly when the record read at record level
\* is MTZENDOFHEADERS; from then on the cursor stays behind that record, and a Header
\* is constructed only there.
C13_TwoPhases ==
  /\ [](/\ \A k \in 1..Len(header_records) :
              /\ k <= Len(file.body) /\ file.body[k].t = "rec"
              /\ header_records[k] = _parse_record(file.body[k].raw)
              /\ header_records[k].keyword # <<"END">>
        /\ pc \in {"phase2", "bats", "validate"} \/ result = "Header" =>
              HasEnd(file) /\ Len(header_records) = EndIndex(file) - 1
        /\ pc = "validate" \/ result = "Header" => BehindEndOfHeaders)
  /\ [][/\ pc = "phase1" /\ pc' = "phase2" => CursorAt("END")
        /\ pc = "phase2" => (pc' = "validate" <=> CursorAt("MTZENDOFHEADERS"))
        /\ pc = "validate" => pos' = pos]_vars

\* C13 witness: a Header of a file that holds records behind MTZENDOFHEADERS, an
\* MTZENDOFHEADERS record before END and another one read as a history line
C13_Witness ==
  /\ result = "Header" /\ pos < EndOf(file)
  /\ OfKind(Primary(file), {"MTZENDOFHEADERS"}) # <<>>
  /\ history = <<<<"MTZENDOFHEADERS">>>>

\* the counts (serial, nwords, nintegers, nreals) of the BH record at the cursor
CountsAtCursor == [k \in 1..4 |-> IntOf(Fields(file.body[IndexAt(file, pos)])[k])]

\* the number of words of the integer and real arrays of the batch at the cursor
ArrayWordsAtCursor == Max(CountsAtCursor[3] - 3, 0) + Max(CountsAtCursor[4], 0)

\* the batch at the cursor is complete: counts that agree, the words of its arrays, a BHCH record
WellFormedBatchAtCursor ==
  /\ BatchAtCursor /\ ~BadCountsAtCursor
  /\ IndexAt(file, pos) + 5 + ArrayWordsAtCursor <= Len(file.body)
  /\ \A k \in 1..ArrayWordsAtCursor : file.body[IndexAt(file, pos) + 4 + k].t = "i4"
  /\ IsKw(file.body[IndexAt(file, pos) + 5 + ArrayWordsAtCursor], "BHCH")

\* a text record with another keyword stands where the batch at the cursor needs its
\* BH record, its TITLE record, or (behind a batch without reals) its BHCH record
WrongKeywordAtCursor ==
  LET i == IndexAt(file, pos)
  IN /\ i > 0
     /\ \/ file.body[i].t = "rec" /\ ~IsKw(file.body[i], "BH")
        \/ /\ IsKw(file.body[i], "BH") /\ Len(Fields(file.body[i])) = 4
           /\ \A k \in 1..4 : Fields(file.body[i])[k] \in IntGlyphs
           /\ i + 1 <= Len(file.body)
           /\ file.body[i + 1].t = "rec" /\ ~IsKw(file.body[i + 1], "TITLE")
        \/ /\ BatchAtCursor /\ ~BadCountsAtCursor /\ CountsAtCursor[4] = 0
           /\ i + 5 + ArrayWordsAtCursor <= Len(file.body)
           /\ \A k \in 1..ArrayWordsAtCursor : file.body[i + 4 + k].t = "i4"
           /\ file.body[i + 5 + ArrayWordsAtCursor].t = "rec"
           /\ ~IsKw(file.body[i + 5 + ArrayWordsAtCursor], "BHCH")

\* C14 (as claimed): behind an MTZBATS record the batch decoder runs nbatch times; a run
\* on a complete batch succeeds and consumes its two records, its three words, its
\* arrays and its BHCH record; a run that finds another keyword in the place of BH,
\* TITLE or BHCH ends the decode in MTZFileError
C14_BatchRuns ==
  [][pc = "bats" =>
       /\ WellFormedBatchAtCursor =>
            /\ result' = "running"
            /\ pos' = pos + 3 * RecordSize + (3 + ArrayWordsAtCursor) * WordSize
            /\ Len(acc') = Len(acc) + 1 \/ (pc' = "phase2" /\ Len(batches') = ncol[3])
       /\ WrongKeywordAtCursor => result' = "MTZFileError"
       /\ pc' = "phase2" => Len(batches') = ncol[3]]_vars

\* the Batch a run of the batch decoder has just produced
Produced(a, bs, p) == IF p = "phase2" THEN bs[Len(bs)] ELSE a[Len(a)]

\* C15 (as claimed): a run of the batch decoder that produces a Batch from a BH record
\* (serial, nwords, nintegers, nreals) leaves nintegers - 3 integers and nreals reals in
\* it and moves the cursor by 3 * 80 + 4 * nwords bytes, also when nintegers < 3
C15_PayloadLengths ==
  [][(pc = "bats" /\ result' = "running") =>
       /\ Len(Produced(acc', batches', pc').data[1]) = CountsAtCursor[3] - 3
       /\ Len(Produced(acc', batches', pc').data[2]) = CountsAtCursor[4]
       /\ pos' - pos = 3 * RecordSize + WordSize * CountsAtCursor[2]]_vars

\* the records before END that carry none of the keywords kws, decoded, in file order
Retained(f, kws) ==
  LET kept == SelectSeq(Primary(f), LAMBDA x : \A kw \in kws : ~IsKw(x, kw))
  IN [k \in 1..Len(kept) |-> _parse_record(kept[k].raw)]

\* C16 (as claimed): the raw records of a Header are the records before END, in order,
\* without the BATCH records and without the PROJECT, CRYSTAL, DATASET, DCELL, DWAVEL,
\* COL, COLUMN, COLSRC, VERS and TITLE records, and without no other record
C16_RetainedButTen ==
  result = "Header" =>
    header.raw_records =
      Retained(file, {"BATCH", "PROJECT", "CRYSTAL", "DATASET", "DCELL", "DWAVEL",
                      "COL", "COLUMN", "COLSRC", "VERS", "TITLE"})

\* C16 (amended): the raw records of a Header are the records before END, in order,
\* without the BATCH records and without the NDIF, PROJECT, CRYSTAL, DATASET, DCELL,
\* DWAVEL, COL, COLUMN, COLSRC, VERS and TITLE records; every other record is kept
C16_Retained ==
  result = "Header" =>
    header.raw_records =
      Retained(file, {"BATCH", "NDIF", "PROJECT", "CRYSTAL", "DATASET", "DCELL", "DWAVEL",
                      "COL", "COLUMN", "COLSRC", "VERS", "TITLE"})

\* C16 witness: a Header of a file with an NDIF record that keeps, in order, its NCOL
\* record and an MTZHIST record found before END
C16_Witness ==
  /\ result = "Header"
  /\ Len(OfKind(Primary(file), {"NDIF"})) = 1
  /\ Len(header.raw_records) = 2 /\ header.raw_records[1].keyword = <<"NCOL">>
  /\ header.raw_records[2].keyword = <<"MTZHIST">>

ValidPreamble(f) == f.magic = MTZMagic /\ f.tag = NumberFormat

\* C17: the stream is sought at most once; a decode whose preamble is valid has sought
\* once, to byte (offset - 1) * 4, when the preamble has been read, and a decode whose
\* magic or number format is wrong ends in an error without a seek; after the preamble
\* no seek is made and the cursor never moves backwards.
C17_OneSeek ==
  /\ [](/\ pc = "open" => seeks = <<>> /\ pos = 0
        /\ (pc # "open" /\ ValidPreamble(file)) => seeks = <<(file.offset - 1) * 4>>
        /\ (pc # "open" /\ ~ValidPreamble(file)) =>
              /\ seeks = <<>> /\ pc = "done" /\ pos <= 12
              /\ result \notin {"running", "Header"})
  /\ [][pc # "open" => seeks' = seeks /\ pos' >= pos]_vars

\* C17 witness: a Header decoded from a file whose header starts at word 21, after one seek to byte 80
C17_Witness ==
  /\ result = "Header" /\ file.offset = 21 /\ seeks = <<80>> /\ pos > 80

\* the payload of a dataset record as the Dataset holds it: the second field, a number
\* for DWAVEL, the six numbers behind the id for DCELL
DatasetPayload(item, kind) ==
  CASE kind = "DWAVEL" -> IntOf(Field(item, 2))
    [] kind = "DCELL" -> [k \in 1..6 |-> IntOf(Field(item, k + 1))]
    [] OTHER -> Field(item, 2)

\* the field a Dataset of this id is to hold for a kind of record
ExpectedField(f, kind, id) ==
  IF Carrying(Primary(f), {kind}, Glyph(id)) = <<>> THEN None
  ELSE Some(DatasetPayload(Carrying(Primary(f), {kind}, Glyph(id))[1], kind))

\* C18: a Header holds exactly one Dataset per distinct dataset id of the COL/COLUMN,
\* PROJECT, CRYSTAL, DATASET, DCELL and DWAVEL records; no kind has two records that
\* carry the same id; each field of a Dataset is empty when no record of its kind
\* carries the id and is the payload of the record that does otherwise.
C18_DatasetFields ==
  result = "Header" =>
    /\ {d.id : d \in DatasetsOf(header)} = InputDatasetIds(file)
    /\ Len(header.datasets) = Cardinality(InputDatasetIds(file))
    /\ \A d \in DatasetsOf(header) :
         /\ \A kind \in {"PROJECT", "CRYSTAL", "DATASET", "DCELL", "DWAVEL"} :
              Len(Carrying(Primary(file), {kind}, Glyph(d.id))) <= 1
         /\ d.name = ExpectedField(file, "DATASET", d.id)
         /\ d.project = ExpectedField(file, "PROJECT", d.id)
         /\ d.crystal = ExpectedField(file, "CRYSTAL", d.id)
         /\ d.cell = ExpectedField(file, "DCELL", d.id)
         /\ d.wavelength = ExpectedField(file, "DWAVEL", d.id)

\* C18 witness: a Header of two Datasets, the first with a name and a project, the
\* second without a project
C18_Witness ==
  /\ result = "Header" /\ Len(header.datasets) = 2
  /\ header.datasets[1].name # None /\ header.datasets[1].project # None
  /\ header.datasets[2].project = None

\* the stream ends before an END record or before an MTZENDOFHEADERS record behind it
Truncated(f) == ~HasEnd(f) \/ OfKind(PostHeader(f), {"MTZENDOFHEADERS"}) = <<>>

\* C19: every decode ends, with a Header or with an error; the decode of a stream that
\* ends before END, before MTZENDOFHEADERS or inside a batch ends with an error.
C19_Terminates ==
  /\ <>(pc = "done" /\ result # "running")
  /\ []((pc = "done" /\ Truncated(file)) => result \notin {"running", "Header"})

\* C19 witness: the decode of a file without an END record has read to the end of the
\* file and ended with the error of the zero-length read
C19_Witness ==
  /\ pc = "done" /\ ~HasEnd(file) /\ file.body # <<>> /\ ValidPreamble(file)
  /\ pos = EndOf(file) /\ result = "IOError" /\ errkw = <<>>

\* the list objects a Header holds
Containers(h) == {h.history, h.batches}

\* the list objects created by the class statement, shared by every call
Defaults == {DefaultHistory, DefaultBatches}

\* C20: the Header of a decode holds two list objects of its own: they are not the
\* default lists, they are two objects, and no Header of an earlier decode holds
\* either of them.
C20_FreshContainers ==
  (pc = "done" /\ result = "Header") =>
    /\ Containers(held) \cap Defaults = {}
    /\ Containers(held) \subseteq 1..lists
    /\ held.history # held.batches
    /\ \A i \in 1..Len(made) :
         made[i] # NoHeld =>
           /\ Containers(made[i]) \cap Containers(held) = {}
           /\ Containers(made[i]) \cap Defaults = {}

\* C20 witness: two files with neither an MTZHIST nor an MTZBATS block were decoded one
\* after the other, and both decodes returned a Header
C20_Witness ==
  /\ pc = "done" /\ result = "Header" /\ Len(made) = 1 /\ made[1] # NoHeld
  /\ OfKind(PostHeader(file), {"MTZHIST", "MTZBATS"}) = <<>>
  /\ history = <<>> /\ batches = <<>>
  /\ lists = 4

====
